---- MODULE Spec2Model ----
(***************************************************************************)
(* Verification model of the DEVWKS-2382 agent notebooks:                  *)
(*   - the hand-written ReAct Agent class and the query() loop,            *)
(*   - the LangGraph Agent (llm / action nodes) with its checkpointer,     *)
(*   - the network assistant tools execute_cisco_command and analyze_logs  *)
(*     and its interactive loop.                                           *)
(* Text is modelled as a sequence of tokens (a token is a maximal run of   *)
(* word characters, or a single other character); "" is the empty          *)
(* sequence.  Calls into external services (the model API, tools, SSH)     *)
(* either return a value or raise.                                         *)
(***************************************************************************)
EXTENDS Integers, Sequences, FiniteSets, TLC

VARIABLES
    \* ---- hand-written ReAct Agent (self.system, self.messages) ----
    system, messages, nOk, nFail,
    \* ---- query(question, max_turns) ----
    question, max_turns, i, next_prompt, result, pc, raisedBy, ran,
    \* ---- LangGraph Agent: self.system, the checkpointer, the current run ----
    gsystem, store, thread, node, failed, state, trace, modelInput,
    \* history of the LangGraph runs (not program state)
    said, saidAtCall, runStart, acted,
    \* ---- execute_cisco_command ----
    command, session, cisco_return, ncisco,
    \* ---- analyze_logs ----
    log_data, log_return, lpc,
    \* ---- the interactive loop of the network assistant ----
    user_input, printed, runs, nprompts, loop_pc

agentVars == <<system, messages, nOk, nFail>>
queryVars == <<question, max_turns, i, next_prompt, result, pc, raisedBy, ran>>
graphVars == <<gsystem, store, thread, node, failed, state, trace, modelInput,
               said, saidAtCall, runStart, acted>>
ciscoVars == <<command, session, cisco_return, ncisco>>
logVars == <<log_data, log_return, lpc>>
loopVars == <<user_input, printed, runs, nprompts, loop_pc>>
vars == <<agentVars, queryVars, graphVars, ciscoVars, logVars, loopVars>>

\* ------------------------------------------------------------------------
\* Bounds
\* ------------------------------------------------------------------------
MaxTurns == 3
MaxAgentCalls == 3
MaxMsgs == 6
MaxCiscoCalls == 2
MaxSegs == 3
MaxPrompts == 3

ThreadIds == {"1", "2"}

\* ------------------------------------------------------------------------
\* Generic helpers
\* ------------------------------------------------------------------------
RECURSIVE Split(_, _)
\* str.split(sep): the pieces between the separators (always at least one).
Split(text, sep) ==
    IF \A k \in 1..Len(text) : text[k] # sep
    THEN <<text>>
    ELSE LET p == CHOOSE k \in 1..Len(text) :
                     text[k] = sep /\ \A j \in 1..(k-1) : text[j] # sep
         IN <<SubSeq(text, 1, p-1)>> \o Split(SubSeq(text, p+1, Len(text)), sep)

IsPrefix(s, t) == Len(s) <= Len(t) /\ SubSeq(t, 1, Len(s)) = s

\* ------------------------------------------------------------------------
\* ReAct notebook: class Agent
\* ------------------------------------------------------------------------
prompt == <<"You", " ", "run", " ", "in", " ", "a", " ", "loop">>

Sys(content) == [role |-> "system", content |-> content]
User(content) == [role |-> "user", content |-> content]
Assistant(content) == [role |-> "assistant", content |-> content]

\* Agent.__init__: messages = [], plus the system entry when system is truthy.
Agent_init(sys) == IF sys # <<>> THEN <<Sys(sys)>> ELSE <<>>

\* Outcome of Agent.execute(): the completion text, or an exception of the API.
Returns(text) == [ok |-> TRUE, text |-> text]
Raises == [ok |-> FALSE, text |-> <<>>]

Agent_call_MutantNoUser(msgs, message, out) ==
    IF out.ok THEN Append(msgs, Assistant(out.text)) ELSE msgs

\* Agent.__call__: append the user message, execute, append the reply.
\* When execute raises, the user message has already been appended.
Agent_call(msgs, message, out) ==
    LET withUser == Append(msgs, User(message))
    IN IF out.ok THEN Append(withUser, Assistant(out.text)) ELSE withUser

\* ------------------------------------------------------------------------
\* ReAct notebook: actions, action_re, query
\* ------------------------------------------------------------------------
Words == {"Action", "Thought", "Answer", "PAUSE", "Observation", "calculate",
          "average_elephant_weight", "lookup", "2", "4", "7", "0", "x",
          "African", "Elephant", "african", "elephant", "Unicorn", "unicorn"}

ActionLine(name, input) == <<"Action", ":", " ", name, ":", " ">> \o input

SampleLines ==
    { ActionLine("calculate", <<"4", " ", "*", " ", "7">>),
      ActionLine("calculate", <<"2", " ", "/", " ", "0">>),
      ActionLine("average_elephant_weight", <<"African", " ", "Elephant">>),
      ActionLine("lookup", <<"x">>),
      <<"Thought", ":", " ", "x">>,
      <<" ">> \o ActionLine("calculate", <<"2">>),
      <<"Action", ":", " ", "calculate">>,
      <<"PAUSE">> }

\* eval(what) on the expressions of the samples; any other text raises
\* (SyntaxError, NameError, ZeroDivisionError, ...).
calculate(what) ==
    IF what = <<"4", " ", "*", " ", "7">> THEN Returns(<<"28">>)
    ELSE IF what = <<"2">> THEN Returns(<<"2">>)
    ELSE Raises

\* str.lower() on the tokens of the samples (and on single letters, for text
\* that is modelled character by character).
LowerTok(t) ==
    CASE t = "African" -> "african"
      [] t = "Elephant" -> "elephant"
      [] t = "Unicorn" -> "unicorn"
      [] t = "Action" -> "action"
      [] t = "Thought" -> "thought"
      [] t = "Answer" -> "answer"
      [] t = "PAUSE" -> "pause"
      [] t = "Observation" -> "observation"
      [] t = "E" -> "e"
      [] t = "R" -> "r"
      [] t = "O" -> "o"
      [] t = "W" -> "w"
      [] t = "A" -> "a"
      [] t = "N" -> "n"
      [] t = "I" -> "i"
      [] t = "G" -> "g"
      [] t = "X" -> "x"
      [] t = "T" -> "t"
      [] t = "Q" -> "q"
      [] t = "U" -> "u"
      [] t = "S" -> "s"
      [] t = "H" -> "h"
      [] OTHER -> t
lower(text) == [k \in 1..Len(text) |-> LowerTok(text[k])]

weights ==
    [s \in { <<a, " ", "elephant">> : a \in {"african", "asian", "forest",
                 "pygmy", "indian", "sumatran"} } |->
        CASE s[1] = "african" -> <<"An", " ", "African", " ", "Elephant", " ", "weighs", " ", "12,000", " ", "lbs">>
          [] s[1] = "asian" -> <<"An", " ", "Asian", " ", "Elephant", " ", "weighs", " ", "8,800", " ", "lbs">>
          [] s[1] = "forest" -> <<"A", " ", "Forest", " ", "Elephant", " ", "weighs", " ", "6,000", " ", "lbs">>
          [] s[1] = "pygmy" -> <<"A", " ", "Pygmy", " ", "Elephant", " ", "weighs", " ", "5,500", " ", "lbs">>
          [] s[1] = "indian" -> <<"An", " ", "Indian", " ", "Elephant", " ", "weighs", " ", "9,000", " ", "lbs">>
          [] OTHER -> <<"A", " ", "Sumatran", " ", "Elephant", " ", "weighs", " ", "6,600", " ", "lbs">>]
    @@ (<<"sri", " ", "lankan", " ", "elephant">> :>
          <<"A", " ", "Sri", " ", "Lankan", " ", "Elephant", " ", "weighs", " ", "10,000", " ", "lbs">>)

\* weights.get(species.lower(), "Unknown elephant species"): never raises.
average_elephant_weight(species) ==
    IF lower(species) \in DOMAIN weights
    THEN Returns(weights[lower(species)])
    ELSE Returns(<<"Unknown", " ", "elephant", " ", "species">>)

known_actions == {"calculate", "average_elephant_weight"}

\* known_actions[action](action_input)
RunAction(action, input) ==
    IF action = "calculate" THEN calculate(input) ELSE average_elephant_weight(input)

NoMatch == [matched |-> FALSE, action |-> "", input |-> <<>>]

\* action_re.match(a) for r'^Action: (\w+): (.*)$' on a line without "\n":
\* the line starts with "Action: ", then one word, then ": ", then anything.
action_re_match(a) ==
    IF /\ Len(a) >= 6
       /\ SubSeq(a, 1, 3) = <<"Action", ":", " ">>
       /\ a[4] \in Words
       /\ SubSeq(a, 5, 6) = <<":", " ">>
    THEN [matched |-> TRUE, action |-> a[4], input |-> SubSeq(a, 7, Len(a))]
    ELSE NoMatch

\* actions = [action_re.match(a) for a in result.split('\n') if action_re.match(a)]
Actions(text) ==
    LET lines == Split(text, "\n")
        ms == [k \in 1..Len(lines) |-> action_re_match(lines[k])]
    IN SelectSeq(ms, LAMBDA m : m.matched)

RECURSIVE JoinLines(_)
JoinLines(ls) ==
    IF Len(ls) = 0 THEN <<>>
    ELSE IF Len(ls) = 1 THEN ls[1]
    ELSE ls[1] \o <<"\n">> \o JoinLines(Tail(ls))

\* Completions the model may give: every sample line alone, and typical
\* multi-line completions (thought + action + PAUSE, two actions, trailing
\* newline, empty text).
SampleResponses ==
    { l : l \in SampleLines } \cup
    { JoinLines(<<<<"Thought", ":", " ", "x">>, l, <<"PAUSE">>>>) : l \in SampleLines } \cup
    { JoinLines(<<ActionLine("average_elephant_weight", <<"Unicorn">>),
                  ActionLine("lookup", <<"x">>)>>),
      JoinLines(<<ActionLine("lookup", <<"x">>),
                  ActionLine("calculate", <<"2">>)>>),
      JoinLines(<<<<"Answer", ":", " ", "x">>, <<>>>>),
      <<>> }

ModelOutcomes == { Returns(t) : t \in SampleResponses } \cup {Raises}

Questions == { <<"How", " ", "much", "?">> }

LoopGuard_MutantOffByOne(n, limit) == n <= limit

\* while i < max_turns
LoopGuard(n, limit) == n < limit

AfterNoAction_MutantContinue == "loop"

\* else: return
AfterNoAction == "returned"

IsKnown_MutantAll(action) == TRUE

\* the test of `if action not in known_actions: raise`
IsKnown(action) == action \in known_actions

\* What one pass of the loop body does with the outcome of bot(next_prompt).
TurnResult(out) ==
    IF ~out.ok
    THEN [pc |-> "raised", by |-> "model", ran |-> <<>>, next |-> <<>>]
    ELSE LET actions == Actions(out.text) IN
         IF actions # <<>>
         THEN LET action == actions[1].action
                  action_input == actions[1].input
              IN IF ~IsKnown(action)
                 THEN [pc |-> "raised", by |-> "unknown_action", ran |-> <<>>, next |-> <<>>]
                 ELSE LET observation == RunAction(action, action_input) IN
                      IF ~observation.ok
                      THEN [pc |-> "raised", by |-> "action",
                            ran |-> <<[turn |-> i + 1, action |-> action, input |-> action_input]>>,
                            next |-> <<>>]
                      ELSE [pc |-> "loop", by |-> "none",
                            ran |-> <<[turn |-> i + 1, action |-> action, input |-> action_input]>>,
                            next |-> <<"Observation", ":", " ">> \o observation.text]
         ELSE [pc |-> AfterNoAction, by |-> "none", ran |-> <<>>, next |-> <<>>]

\* The other notebooks are not running.
GraphIdle ==
    /\ gsystem = <<>> /\ store = [t \in ThreadIds |-> <<>>] /\ thread = "none"
    /\ node = "idle" /\ failed = FALSE /\ state = <<>> /\ trace = <<>>
    /\ modelInput = <<>> /\ said = [t \in ThreadIds |-> <<>>]
    /\ saidAtCall = <<>> /\ runStart = 0
    /\ acted = [calls |-> <<>>, results |-> <<>>, invoked |-> {}, raisedAt |-> 0]

CiscoIdle ==
    /\ command = <<>> /\ ncisco = 0
    /\ session = [connect |-> "none", send |-> "none", disconnect |-> "none",
                  output |-> <<>>, error |-> <<>>]
    /\ cisco_return = [raised |-> FALSE, value |-> <<>>]

LogsIdle == log_data = <<>> /\ log_return = <<>> /\ lpc = "idle"

LoopIdle ==
    /\ user_input = <<>> /\ printed = <<>> /\ runs = <<>>
    /\ nprompts = 0 /\ loop_pc = "idle"

\* State after `i = 0; bot = Agent(prompt); next_prompt = question`.
QueryInit ==
    /\ question \in Questions
    /\ max_turns \in 0..MaxTurns
    /\ system = prompt
    /\ messages = Agent_init(prompt)
    /\ nOk = 0 /\ nFail = 0
    /\ i = 0
    /\ next_prompt = question
    /\ result = <<>>
    /\ pc = "loop"
    /\ raisedBy = "none"
    /\ ran = <<>>
    /\ GraphIdle /\ CiscoIdle /\ LogsIdle /\ LoopIdle

\* One pass of the while body.
QueryTurn ==
    /\ pc = "loop"
    /\ LoopGuard(i, max_turns)
    /\ \E out \in ModelOutcomes :
         LET r == TurnResult(out) IN
         /\ i' = i + 1
         /\ messages' = Agent_call(messages, next_prompt, out)
         /\ nOk' = IF out.ok THEN nOk + 1 ELSE nOk
         /\ nFail' = IF out.ok THEN nFail ELSE nFail + 1
         /\ result' = IF out.ok THEN out.text ELSE result
         /\ pc' = r.pc
         /\ raisedBy' = r.by
         /\ ran' = ran \o r.ran
         /\ next_prompt' = IF r.pc = "loop" /\ r.ran # <<>> THEN r.next ELSE next_prompt
    /\ UNCHANGED <<system, question, max_turns>>
    /\ UNCHANGED <<graphVars, ciscoVars, logVars, loopVars>>

\* The while condition is false: query falls off its end.
QueryExit ==
    /\ pc = "loop"
    /\ ~LoopGuard(i, max_turns)
    /\ pc' = "exhausted"
    /\ UNCHANGED <<agentVars, question, max_turns, i, next_prompt, result, raisedBy, ran>>
    /\ UNCHANGED <<graphVars, ciscoVars, logVars, loopVars>>

QueryNext == QueryTurn \/ QueryExit

SpecQuery == QueryInit /\ [][QueryNext]_vars

\* ------------------------------------------------------------------------
\* ReAct notebook: the Agent used directly (abot = Agent(...); abot(msg))
\* ------------------------------------------------------------------------
Systems == {<<>>, prompt}
UserMessages == { <<"How", " ", "much", "?">>, <<"Observation", ":", " ", "x">> }
AgentReplies == { Returns(<<"Answer", ":", " ", "x">>),
                  Returns(ActionLine("calculate", <<"2">>)),
                  Returns(<<>>), Raises }

QueryIdle ==
    /\ question = <<>> /\ max_turns = 0 /\ i = 0 /\ next_prompt = <<>>
    /\ result = <<>> /\ pc = "idle" /\ raisedBy = "none" /\ ran = <<>>

AgentIdle == system = <<>> /\ messages = <<>> /\ nOk = 0 /\ nFail = 0

AgentInit ==
    /\ system \in Systems
    /\ messages = Agent_init(system)
    /\ nOk = 0 /\ nFail = 0
    /\ QueryIdle
    /\ GraphIdle /\ CiscoIdle /\ LogsIdle /\ LoopIdle

\* abot(message)
AgentCall ==
    /\ nOk + nFail < MaxAgentCalls
    /\ \E message \in UserMessages, out \in AgentReplies :
         /\ messages' = Agent_call(messages, message, out)
         /\ nOk' = IF out.ok THEN nOk + 1 ELSE nOk
         /\ nFail' = IF out.ok THEN nFail ELSE nFail + 1
    /\ UNCHANGED <<system, queryVars, graphVars, ciscoVars, logVars, loopVars>>

AgentNext == AgentCall

SpecAgent == AgentInit /\ [][AgentNext]_vars

\* ------------------------------------------------------------------------
\* Properties of query and of the ReAct Agent
\* ------------------------------------------------------------------------
calls == nOk + nFail

LastResponseNoAction == nOk > 0 /\ raisedBy # "model" /\ Actions(result) = <<>>

\* C1: query is turn-bounded: the model is called at most max_turns times
\* (never, when max_turns = 0), one call per pass of the loop, and once
\* max_turns calls have been made no further pass is possible.
C1_TurnBounded ==
    pc # "idle" =>
        /\ calls <= max_turns
        /\ calls = i
        /\ (max_turns = 0 => calls = 0)
        /\ (calls = max_turns => ~ENABLED QueryTurn)
        /\ (pc = "exhausted" => calls = max_turns)

C1_Witness == pc = "exhausted" /\ max_turns >= 2 /\ nOk = max_turns /\ Len(ran) = max_turns

C7_NoActionReturnsAtOnce ==
    /\ [](LastResponseNoAction =>
            /\ pc = "returned"
            /\ \A k \in 1..Len(ran) : ran[k].turn # i)
    /\ [][pc = "returned" => (nOk' = nOk /\ nFail' = nFail /\ ran' = ran /\ pc' = pc)]_vars

C7_Witness ==
    /\ pc = "returned" /\ calls >= 2 /\ calls < max_turns
    /\ Len(ran) = calls - 1

SysCount == IF system # <<>> THEN 1 ELSE 0

Alternates ==
    \A k \in (SysCount + 1)..Len(messages) :
        messages[k].role = (IF (k - SysCount) % 2 = 1 THEN "user" ELSE "assistant")

SystemFirstIffGiven ==
    (system # <<>>) <=> (Len(messages) > 0 /\ messages[1] = Sys(system))

\* C8 as stated: after n successful calls the list has 2n entries plus the
\* optional system entry and the roles after it alternate user, assistant.
C8_TwoPerSuccessfulCall ==
    /\ SystemFirstIffGiven
    /\ Len(messages) = 2 * nOk + SysCount
    /\ Alternates

\* C8 amended: the system entry is first iff a non-empty system string was
\* given; a successful call appends the user message and then the assistant
\* reply, a call whose execute() raises appends only the user message; so
\* after n successful and f failed calls the list has 2n + f entries plus the
\* optional system entry, every assistant entry directly follows a user
\* entry, the roles alternate as long as no call has failed, and no earlier
\* entry is ever removed or changed.
C8_MessagesAppendOnly ==
    /\ [](/\ SystemFirstIffGiven
          /\ Len(messages) = 2 * nOk + nFail + SysCount
          /\ \A k \in 1..Len(messages) :
                /\ (messages[k].role = "system" => k = 1)
                /\ (messages[k].role = "assistant" =>
                        k > 1 /\ messages[k-1].role = "user")
          /\ (nFail = 0 => Alternates))
    /\ [][/\ IsPrefix(messages, messages')
          /\ (nOk' = nOk + 1 =>
                /\ Len(messages') = Len(messages) + 2
                /\ messages'[Len(messages) + 1].role = "user"
                /\ messages'[Len(messages) + 2].role = "assistant")
          /\ (nFail' = nFail + 1 =>
                /\ Len(messages') = Len(messages) + 1
                /\ messages'[Len(messages) + 1].role = "user")]_vars

C8_Witness == nOk >= 2 /\ nFail >= 1 /\ system # <<>>

\* ------------------------------------------------------------------------
\* LangGraph notebooks: class Agent (llm and action nodes), the checkpointer
\* ------------------------------------------------------------------------
HumanMessage(content) ==
    [type |-> "human", content |-> content, tool_calls |-> <<>>,
     tool_call_id |-> "", name |-> ""]
SystemMessage(content) ==
    [type |-> "system", content |-> content, tool_calls |-> <<>>,
     tool_call_id |-> "", name |-> ""]
AIMessage(content, tool_calls) ==
    [type |-> "ai", content |-> content, tool_calls |-> tool_calls,
     tool_call_id |-> "", name |-> ""]
ToolMessage(tool_call_id, name, content) ==
    [type |-> "tool", content |-> content, tool_calls |-> <<>>,
     tool_call_id |-> tool_call_id, name |-> name]

research_prompt == <<"You", " ", "are", " ", "a", " ", "smart", " ", "research", " ", "assistant">>

\* self.tools = {t.name: t for t in tools}, tools = [TavilySearchResults]
tools == {"tavily_search_results_json"}

ToolCall(name, id) == [name |-> name, args |-> <<"query">>, id |-> id]

\* tool_calls the model may put in its reply: none, a valid call, a call of
\* a tool that does not exist, and both orders of a valid and an invalid call.
SampleToolCalls ==
    { <<>>,
      <<ToolCall("tavily_search_results_json", "call_1")>>,
      <<ToolCall("web_search", "call_1")>>,
      <<ToolCall("web_search", "call_1"), ToolCall("tavily_search_results_json", "call_2")>>,
      <<ToolCall("tavily_search_results_json", "call_1"), ToolCall("web_search", "call_2")>> }

\* Outcome of self.model.invoke(messages): a reply, or an exception.
AIOutcomes ==
    { [ok |-> TRUE, msg |-> AIMessage(<<"reply">>, c)] : c \in SampleToolCalls }
    \cup { [ok |-> FALSE, msg |-> AIMessage(<<>>, <<>>)] }

\* Outcome of self.tools[name].invoke(args): a result, or an exception.
ToolOutcomes == { Returns(<<"search", " ", "results">>), Raises }

HumanInputs == { <<"Whats", " ", "the", " ", "currency", " ", "of", " ", "Lisbon">>,
                 <<"Which", " ", "one", " ", "is", " ", "stronger", "?">> }

bad_tool_name == <<"bad", " ", "tool", " ", "name", ",", " ", "retry">>

\* graph.set_entry_point("llm")
entry_point == "llm"

\* Agent.exists_action: the last message has tool calls.
exists_action(st) == Len(st[Len(st)].tool_calls) > 0

\* graph.add_conditional_edges("llm", self.exists_action, {True: "action", False: END})
AfterLlm(st) == IF exists_action(st) THEN "action" ELSE "END"

AfterAction_MutantEnd == "END"

\* graph.add_edge("action", "llm")
AfterAction == "llm"

\* Agent.call_openai: the messages handed to self.model.invoke.
call_openai_input(st) ==
    IF gsystem # <<>> THEN <<SystemMessage(gsystem)>> \o st ELSE st

ToolResult_MutantKeyError(t, out) ==
    IF t.name \notin tools THEN Raises ELSE out

\* The body of the loop of take_action for one tool call: the retry text for
\* a name that is not in self.tools, else what the tool's invoke gives.
ToolResult(t, out) ==
    IF t.name \notin tools THEN Returns(bad_tool_name) ELSE out

RECURSIVE take_action_from(_, _, _)
\* Agent.take_action from the k-th tool call on: the ToolMessages appended,
\* the calls for which a tool was invoked, and the call at which an exception
\* left the loop (0 if none).
take_action_from(tool_calls, outs, k) ==
    IF k > Len(tool_calls)
    THEN [results |-> <<>>, invoked |-> {}, raisedAt |-> 0]
    ELSE LET t == tool_calls[k]
             r == ToolResult(t, outs[k])
             inv == IF t.name \in tools THEN {k} ELSE {}
         IN IF ~r.ok
            THEN [results |-> <<>>, invoked |-> inv, raisedAt |-> k]
            ELSE LET rest == take_action_from(tool_calls, outs, k + 1)
                 IN [results |-> <<ToolMessage(t.id, t.name, r.text)>> \o rest.results,
                     invoked |-> inv \cup rest.invoked,
                     raisedAt |-> rest.raisedAt]

take_action(st, outs) == take_action_from(st[Len(st)].tool_calls, outs, 1)

Load_MutantNoMemory(st, t) == <<>>

\* The checkpointer given to graph.compile: the state saved for a thread_id.
Load(st, t) == st[t]

Save_MutantSharedThread(st, t, msgs) == [u \in ThreadIds |-> msgs]

\* The checkpointer saves the state of the run under its thread_id.
Save(st, t, msgs) == [st EXCEPT ![t] = msgs]

RECURSIVE SumLen(_, _)
SumLen(f, S) ==
    IF S = {} THEN 0
    ELSE LET t == CHOOSE u \in S : TRUE IN Len(f[t]) + SumLen(f, S \ {t})

\* Number of messages said on all threads so far (bounded by MaxMsgs).
Stored == SumLen(said, ThreadIds)

NoAction == [calls |-> <<>>, results |-> <<>>, invoked |-> {}, raisedAt |-> 0]

\* State after `memory = SqliteSaver(":memory:")` and `abot = Agent(...)`.
GraphInit ==
    /\ gsystem \in {<<>>, research_prompt}
    /\ store = [t \in ThreadIds |-> <<>>]
    /\ thread = "none" /\ node = "idle" /\ failed = FALSE
    /\ state = <<>> /\ trace = <<>> /\ modelInput = <<>>
    /\ said = [t \in ThreadIds |-> <<>>]
    /\ saidAtCall = <<>> /\ runStart = 0
    /\ acted = NoAction
    /\ AgentIdle /\ QueryIdle /\ CiscoIdle /\ LogsIdle /\ LoopIdle

\* abot.graph.stream({"messages": messages}, thread): the saved state of the
\* thread is loaded, the input is added (operator.add) and the run starts at
\* the entry point.  stream is synchronous: no other run is in progress.
StartRun ==
    /\ node \in {"idle", "END"} \/ failed
    /\ \E t \in ThreadIds, content \in HumanInputs :
         LET input == <<HumanMessage(content)>>
             st == Load(store, t) \o input
         IN /\ Stored + 2 <= MaxMsgs
            /\ state' = st
            /\ store' = Save(store, t, st)
            /\ thread' = t
            /\ said' = [said EXCEPT ![t] = @ \o input]
            /\ runStart' = Len(said[t])
    /\ node' = entry_point
    /\ failed' = FALSE
    /\ trace' = <<>>
    /\ modelInput' = <<>>
    /\ saidAtCall' = <<>>
    /\ acted' = NoAction
    /\ UNCHANGED gsystem
    /\ UNCHANGED <<agentVars, queryVars, ciscoVars, logVars, loopVars>>

\* The llm node (call_openai) and the conditional edge after it.
LlmStep ==
    /\ node = "llm" /\ ~failed
    /\ modelInput' = call_openai_input(state)
    /\ saidAtCall' = said[thread]
    /\ \E out \in AIOutcomes :
         IF ~out.ok
         THEN /\ failed' = TRUE
              /\ UNCHANGED <<store, node, state, trace, said>>
         ELSE LET st == state \o <<out.msg>>
                  n == Len(out.msg.tool_calls)
              IN /\ Stored + 1 + (IF n > 0 THEN n + 1 ELSE 0) <= MaxMsgs
                 /\ state' = st
                 /\ store' = Save(store, thread, st)
                 /\ trace' = Append(trace, "llm")
                 /\ node' = AfterLlm(st)
                 /\ said' = [said EXCEPT ![thread] = Append(@, out.msg)]
                 /\ failed' = FALSE
    /\ UNCHANGED <<gsystem, thread, runStart, acted>>
    /\ UNCHANGED <<agentVars, queryVars, ciscoVars, logVars, loopVars>>

\* The action node (take_action) and the edge after it.
ActionStep ==
    /\ node = "action" /\ ~failed
    /\ \E outs \in [1..Len(state[Len(state)].tool_calls) -> ToolOutcomes] :
         LET r == take_action(state, outs)
             st == state \o r.results
         IN /\ acted' = [calls |-> state[Len(state)].tool_calls,
                         results |-> r.results, invoked |-> r.invoked,
                         raisedAt |-> r.raisedAt]
            /\ IF r.raisedAt # 0
               THEN /\ failed' = TRUE
                    /\ UNCHANGED <<store, node, state, trace, said>>
               ELSE /\ state' = st
                    /\ store' = Save(store, thread, st)
                    /\ trace' = Append(trace, "action")
                    /\ node' = AfterAction
                    /\ said' = [said EXCEPT ![thread] = @ \o r.results]
                    /\ failed' = FALSE
    /\ UNCHANGED <<gsystem, thread, modelInput, saidAtCall, runStart>>
    /\ UNCHANGED <<agentVars, queryVars, ciscoVars, logVars, loopVars>>

GraphNext == StartRun \/ LlmStep \/ ActionStep

SpecGraph == GraphInit /\ [][GraphNext]_vars

\* ------------------------------------------------------------------------
\* Properties of the LangGraph Agent
\* ------------------------------------------------------------------------
LastNode == trace[Len(trace)]

\* C2: a run starts at the llm node; after an llm step the action node is
\* next iff the last message has a tool call, else the run ends; after an
\* action step the llm node is next; so a run ends only after an llm step and
\* no node runs twice in a row.
C2_LlmActionAlternate ==
    /\ [](thread # "none" =>
            /\ (trace = <<>> => node = "llm")
            /\ (trace # <<>> => trace[1] = "llm")
            /\ \A k \in 1..(Len(trace) - 1) : trace[k] # trace[k + 1]
            /\ (trace # <<>> /\ LastNode = "llm" =>
                    node = (IF Len(state[Len(state)].tool_calls) > 0
                            THEN "action" ELSE "END"))
            /\ (trace # <<>> /\ LastNode = "action" => node = "llm")
            /\ (node = "END" => trace # <<>> /\ LastNode = "llm"))
    /\ [][Len(trace') = Len(trace) + 1 => trace' = Append(trace, node)]_vars

C2_Witness == trace = <<"llm", "action", "llm", "action", "llm">> /\ node = "END"

Reached(k) == acted.raisedAt = 0 \/ acted.raisedAt > k

SystemPrefix == IF gsystem # <<>> THEN <<SystemMessage(gsystem)>> ELSE <<>>

\* Messages of the earlier runs on the thread of the current run, and the
\* input of the current run.
Earlier == SubSeq(said[thread], 1, runStart)
RunInput == <<said[thread][runStart + 1]>>

\* C4: the messages handed to the model in a run are (after the system
\* message that call_openai puts in front when the agent has one) all
\* messages of the earlier runs on the same thread_id, in their order,
\* followed by the input of the run, followed by what the run itself has
\* added so far; at the first llm step of the run nothing follows the input.
C4_RemembersThread ==
    modelInput # <<>> =>
        /\ modelInput = SystemPrefix \o saidAtCall
        /\ IsPrefix(Earlier \o RunInput, saidAtCall)
        /\ IsPrefix(saidAtCall, said[thread])
        /\ (Len(trace) <= 1 => saidAtCall = Earlier \o RunInput)

C4_Witness ==
    /\ runStart >= 4
    /\ \E k \in 1..runStart : said[thread][k].type = "tool"
    /\ trace = <<"llm">>
    /\ Len(modelInput) >= 6

\* C5: threads are isolated: what is stored for a thread_id is exactly what
\* was said on that thread, the state of a run is that of its own thread, and
\* a step of a run leaves the stored messages of every other thread unchanged.
C5_ThreadsIsolated ==
    /\ [](/\ \A t \in ThreadIds : store[t] = said[t]
          /\ (thread # "none" => state = said[thread]))
    /\ [][\A t \in ThreadIds : t # thread' => store'[t] = store[t]]_vars

C5_Witness ==
    /\ thread = "2"
    /\ Len(store["1"]) >= 2
    /\ Len(store["2"]) >= 2
    /\ store["1"][1] # store["2"][1]
    /\ modelInput # <<>>
    /\ \A k \in 1..Len(modelInput) : modelInput[k] # store["1"][1]

\* ------------------------------------------------------------------------
\* Network assistant notebook: execute_cisco_command
\* ------------------------------------------------------------------------
Commands == { <<"show", " ", "version">>, <<"show", " ", "ip", " ", "interface", " ", "brief">>,
              <<"show", " ", "logging">> }

CommandOutputs == { <<"Cisco", " ", "IOS", " ", "Software">>, <<"Interface", " ", "up">>, <<>> }

\* Exceptions of the netmiko calls (all subclasses of Exception), by str(e).
ExceptionTexts == { <<"TCP", " ", "connection", " ", "to", " ", "device", " ", "failed">>,
                    <<"Authentication", " ", "failed">>, <<>> }

RaisesWith(e) == [ok |-> FALSE, text |-> e]

\* f"Error: {e}"
ErrorString(e) == <<"Error", ":", " ">> \o e

\* execute_cisco_command, given the outcomes of ConnectHandler(**device),
\* connection.send_command(command) and connection.disconnect(): all three
\* calls are inside the try, and `except Exception` returns the error string.
execute_cisco_command(conn, send, disc) ==
    IF ~conn.ok THEN [raised |-> FALSE, value |-> ErrorString(conn.text)]
    ELSE IF ~send.ok THEN [raised |-> FALSE, value |-> ErrorString(send.text)]
    ELSE IF ~disc.ok THEN [raised |-> FALSE, value |-> ErrorString(disc.text)]
    ELSE [raised |-> FALSE, value |-> send.text]

NoSession == [connect |-> "none", send |-> "none", disconnect |-> "none",
              output |-> <<>>, error |-> <<>>]

CiscoInit ==
    /\ command = <<>> /\ ncisco = 0
    /\ session = NoSession
    /\ cisco_return = [raised |-> FALSE, value |-> <<>>]
    /\ AgentIdle /\ QueryIdle /\ GraphIdle /\ LogsIdle /\ LoopIdle

Status(out) == IF out.ok THEN "ok" ELSE "raised"

\* One call execute_cisco_command(command).  A call that is not reached
\* (after an earlier one raised) has the outcome "none".
ExecuteCiscoCommand ==
    /\ ncisco < MaxCiscoCalls
    /\ ncisco' = ncisco + 1
    /\ \E cmd \in Commands,
          conn \in {Returns(<<>>)} \cup { RaisesWith(e) : e \in ExceptionTexts },
          send \in { Returns(o) : o \in CommandOutputs } \cup { RaisesWith(e) : e \in ExceptionTexts },
          disc \in {Returns(<<>>)} \cup { RaisesWith(e) : e \in ExceptionTexts } :
         /\ (~conn.ok => send = Returns(<<>>))
         /\ (~conn.ok \/ ~send.ok => disc = Returns(<<>>))
         /\ command' = cmd
         /\ session' =
               [connect |-> Status(conn),
                send |-> IF conn.ok THEN Status(send) ELSE "none",
                disconnect |-> IF conn.ok /\ send.ok THEN Status(disc) ELSE "none",
                output |-> IF conn.ok /\ send.ok THEN send.text ELSE <<>>,
                error |-> IF ~conn.ok THEN conn.text
                          ELSE IF ~send.ok THEN send.text
                          ELSE IF ~disc.ok THEN disc.text ELSE <<>>]
         /\ cisco_return' = execute_cisco_command(conn, send, disc)
    /\ UNCHANGED <<agentVars, queryVars, graphVars, logVars, loopVars>>

CiscoNext == ExecuteCiscoCommand

SpecCisco == CiscoInit /\ [][CiscoNext]_vars

\* C9 as stated: execute_cisco_command never raises; it returns "Error: "
\* followed by the exception text if connecting or sending the command
\* failed, and otherwise it returns the output of the command.
C9_ErrorStringOrOutput ==
    ncisco > 0 =>
        /\ ~cisco_return.raised
        /\ (session.connect = "raised" \/ session.send = "raised") =>
               cisco_return.value = ErrorString(session.error)
        /\ ~(session.connect = "raised" \/ session.send = "raised") =>
               cisco_return.value = session.output

\* ------------------------------------------------------------------------
\* Network assistant notebook: analyze_logs (text as a sequence of characters)
\* ------------------------------------------------------------------------
error_word == <<"e", "r", "r", "o", "r">>
warning_word == <<"w", "a", "r", "n", "i", "n", "g">>

no_issues == <<"N", "o", " ", "i", "s", "s", "u", "e", "s", " ", "f", "o", "u", "n", "d",
               " ", "i", "n", " ", "t", "h", "e", " ", "l", "o", "g", "s", ".">>

\* Python's `word in text`
Contains(text, word) ==
    \E p \in 1..(Len(text) - Len(word) + 1) : SubSeq(text, p, p + Len(word) - 1) = word

\* The pattern word matches at position p under re.IGNORECASE.
MatchesAt(text, p, word) ==
    /\ p + Len(word) - 1 <= Len(text)
    /\ \A j \in 1..Len(word) : LowerTok(text[p + j - 1]) = word[j]

RECURSIVE findall(_, _, _)
\* re.findall(word + ".*", text, re.IGNORECASE) from position `from` on: the
\* leftmost match, extended to the end of its line, then the matches after it.
findall(word, text, from) ==
    IF \A p \in from..Len(text) : ~MatchesAt(text, p, word)
    THEN <<>>
    ELSE LET p == CHOOSE q \in from..Len(text) :
                     MatchesAt(text, q, word) /\ \A r \in from..(q - 1) : ~MatchesAt(text, r, word)
             e == CHOOSE q \in (p + Len(word) - 1)..Len(text) :
                     /\ \A r \in (p + Len(word))..q : text[r] # "\n"
                     /\ (q = Len(text) \/ text[q + 1] = "\n")
         IN <<SubSeq(text, p, e)>> \o findall(word, text, e + 1)

HasWord_MutantCaseSensitive(text, word) == Contains(text, word)

\* the test `"error" in log_data.lower()`
HasWord(text, word) == Contains(lower(text), word)

analyze_logs(text) ==
    LET errors == IF HasWord(text, error_word) THEN findall(error_word, text, 1) ELSE <<>>
        warnings == IF HasWord(text, warning_word) THEN findall(warning_word, text, 1) ELSE <<>>
        issues == errors \o warnings
    IN IF issues # <<>> THEN JoinLines(issues) ELSE no_issues

Segments ==
    { error_word, <<"E", "R", "R", "O", "R">>, <<"E", "r", "r", "o", "r">>,
      warning_word, <<"W", "A", "R", "N", "I", "N", "G">>,
      <<"e", "r", "r">>, <<"o", "r">>, <<"w", "a", "r", "n">>, <<"I", "N", "G">>,
      <<" ">>, <<"\n">>, <<"x">>, <<":">> }

RECURSIVE Concat(_)
Concat(ss) == IF ss = <<>> THEN <<>> ELSE Head(ss) \o Concat(Tail(ss))

\* Log texts: up to MaxSegs segments one after the other.
SampleLogs ==
    UNION { { Concat(ss) : ss \in [1..n -> Segments] } : n \in 0..MaxSegs }

LogsInit ==
    /\ log_data \in SampleLogs
    /\ log_return = <<>>
    /\ lpc = "called"
    /\ AgentIdle /\ QueryIdle /\ GraphIdle /\ CiscoIdle /\ LoopIdle

\* analyze_logs(log_data)
AnalyzeLogs ==
    /\ lpc = "called"
    /\ log_return' = analyze_logs(log_data)
    /\ lpc' = "returned"
    /\ UNCHANGED log_data
    /\ UNCHANGED <<agentVars, queryVars, graphVars, ciscoVars, loopVars>>

LogsNext == AnalyzeLogs

SpecLogs == LogsInit /\ [][LogsNext]_vars

\* The upper-case form of a letter of the two words.
UpperOf(c) ==
    CASE c = "e" -> "E" [] c = "r" -> "R" [] c = "o" -> "O" [] c = "w" -> "W"
      [] c = "a" -> "A" [] c = "n" -> "N" [] c = "i" -> "I" [] c = "g" -> "G"
      [] c = "x" -> "X" [] c = "t" -> "T" [] c = "q" -> "Q" [] c = "u" -> "U"

\* The word stands at position p of the text, each letter in either case.
WordAt(text, p, word) ==
    /\ p + Len(word) - 1 <= Len(text)
    /\ \A j \in 1..Len(word) : text[p + j - 1] \in {word[j], UpperOf(word[j])}

\* The text has the word somewhere, in any letter case.
HasWordAnyCase(text, word) == \E p \in 1..Len(text) : WordAt(text, p, word)

\* For every line that has the word (in any case): the line from the first
\* occurrence of the word to its end.
FoundPerLine(text, word) ==
    LET lines == Split(text, "\n")
        hits == SelectSeq(lines, LAMBDA l : HasWordAnyCase(l, word))
        From(l) == LET p == CHOOSE q \in 1..Len(l) :
                              /\ WordAt(l, q, word)
                              /\ \A r \in 1..(q - 1) : ~WordAt(l, r, word)
                   IN SubSeq(l, p, Len(l))
    IN [k \in 1..Len(hits) |-> From(hits[k])]

\* C10: analyze_logs returns "No issues found in the logs." iff the text has
\* neither "error" nor "warning" in any letter case; otherwise it returns the
\* found errors (each from the word to the end of its line), then the found
\* warnings, joined by newlines.
C10_NoIssuesIffNoWord ==
    lpc = "returned" =>
        /\ (log_return = no_issues) <=>
              (~HasWordAnyCase(log_data, error_word) /\ ~HasWordAnyCase(log_data, warning_word))
        /\ (log_return # no_issues) =>
              log_return = JoinLines(FoundPerLine(log_data, error_word)
                                     \o FoundPerLine(log_data, warning_word))

C10_Witness ==
    /\ lpc = "returned"
    /\ HasWordAnyCase(log_data, error_word)
    /\ ~Contains(log_data, error_word)
    /\ HasWordAnyCase(log_data, warning_word)
    /\ Contains(log_data, <<"\n">>)

\* ------------------------------------------------------------------------
\* Network assistant notebook: the interactive loop (text as characters)
\* ------------------------------------------------------------------------
exit_word == <<"e", "x", "i", "t">>
quit_word == <<"q", "u", "i", "t">>

welcome == <<"Welcome to the Smart Network Assistant!">>
goodbye == <<"Goodbye!">>

\* f"Response:\n{response}"
ResponseString(response) == <<"Response", ":", "\n">> \o response

\* The word with any of its letters in upper case.
CaseVariants(word) ==
    { [k \in 1..Len(word) |-> IF k \in S THEN UpperOf(word[k]) ELSE word[k]] :
        S \in SUBSET (1..Len(word)) }

\* What the user may type: exit and quit in every letter case, and texts
\* that are not one of the two words (empty, with a blank before or after,
\* a longer word, a command).
UserInputs ==
    CaseVariants(exit_word) \cup CaseVariants(quit_word) \cup
    { <<>>, <<" ", "e", "x", "i", "t">>, <<"Q", "u", "i", "t", " ">>,
      <<"q", "u", "i", "t", "e">>, <<"s", "h", "o", "w">> }

\* Outcome of input(...): the line typed, or EOFError at the end of the input.
InputOutcomes == { Returns(t) : t \in UserInputs } \cup { RaisesWith(<<"EOF when reading a line">>) }

\* Outcome of agent.run(user_input): a response, or an exception.
RunOutcomes ==
    { Returns(<<"All interfaces are up">>),
      RaisesWith(<<"Could not parse LLM output">>), RaisesWith(<<>>) }

IsExitCommand_MutantCaseSensitive(text) == text \in {exit_word, quit_word}

\* user_input.lower() in ["exit", "quit"]
IsExitCommand(text) == lower(text) \in {exit_word, quit_word}

AfterRunException_MutantLeaves == "raised"

\* except Exception as e: print(f"Error: {e}"), then the while loop goes on.
AfterRunException == "prompt"

\* State after print("Welcome to the Smart Network Assistant!").
LoopInit ==
    /\ user_input = <<>>
    /\ printed = <<welcome>>
    /\ runs = <<>>
    /\ nprompts = 0
    /\ loop_pc = "prompt"
    /\ AgentIdle /\ QueryIdle /\ GraphIdle /\ CiscoIdle /\ LogsIdle

\* One pass of the body of `while True`.  input() is outside the try, so an
\* exception of input() leaves the loop.
LoopIteration ==
    /\ loop_pc = "prompt"
    /\ nprompts < MaxPrompts
    /\ nprompts' = nprompts + 1
    /\ \E inp \in InputOutcomes :
         IF ~inp.ok
         THEN /\ loop_pc' = "raised"
              /\ UNCHANGED <<user_input, printed, runs>>
         ELSE /\ user_input' = inp.text
              /\ IF IsExitCommand(inp.text)
                 THEN /\ printed' = Append(printed, goodbye)
                      /\ loop_pc' = "ended"
                      /\ UNCHANGED runs
                 ELSE \E out \in RunOutcomes :
                      /\ runs' = Append(runs, [input |-> inp.text, ok |-> out.ok, text |-> out.text])
                      /\ IF out.ok
                         THEN /\ printed' = Append(printed, ResponseString(out.text))
                              /\ loop_pc' = "prompt"
                         ELSE /\ printed' = Append(printed, ErrorString(out.text))
                              /\ loop_pc' = AfterRunException
    /\ UNCHANGED <<agentVars, queryVars, graphVars, ciscoVars, logVars>>

LoopNext == LoopIteration

SpecLoop == LoopInit /\ [][LoopNext]_vars

\* ------------------------------------------------------------------------
\* Properties of the interactive loop
\* ------------------------------------------------------------------------
\* The text is exactly "exit" or "quit", each letter in either case.
IsExitAnyCase(text) ==
    Len(text) = 4 /\ (WordAt(text, 1, exit_word) \/ WordAt(text, 1, quit_word))

LastPrinted == printed[Len(printed)]
LastRun == runs[Len(runs)]

\* No input that was "exit" or "quit" has reached the agent, and every pass
\* so far has called agent.run once, except the pass that left the loop.
RunsMatchPrompts ==
    /\ \A k \in 1..Len(runs) : ~IsExitAnyCase(runs[k].input)
    /\ (loop_pc = "prompt" =>
            /\ Len(runs) = nprompts
            /\ (nprompts > 0 => LastRun.input = user_input))
    /\ (loop_pc = "ended" =>
            /\ IsExitAnyCase(user_input)
            /\ LastPrinted = goodbye
            /\ Len(runs) = nprompts - 1)

\* A pass that read "exit" or "quit": Goodbye! is printed, the agent is not
\* called, the loop has ended.
ExitPass ==
    /\ IsExitAnyCase(user_input')
    /\ printed' = Append(printed, goodbye)
    /\ runs' = runs
    /\ loop_pc' = "ended"

\* A pass that read any other input: exactly one call agent.run(user_input),
\* then the loop is at the prompt again.
RunPass ==
    /\ ~IsExitAnyCase(user_input')
    /\ Len(runs') = Len(runs) + 1
    /\ SubSeq(runs', 1, Len(runs)) = runs
    /\ runs'[Len(runs')].input = user_input'
    /\ Len(printed') = Len(printed) + 1
    /\ loop_pc' = "prompt"

\* A pass in which input() raised: nothing is printed, the agent is not
\* called, the exception leaves the loop.
InputRaisedPass ==
    /\ loop_pc' = "raised"
    /\ runs' = runs
    /\ printed' = printed
    /\ user_input' = user_input

\* C11 as stated: "exit" or "quit" in any letter case ends the loop after
\* Goodbye! without a call of the agent, every other input gives exactly one
\* call of agent.run with that input before the next prompt, and the loop
\* ends in no other way.
C11_EndsOnlyOnExit ==
    /\ [](loop_pc # "idle" => (RunsMatchPrompts /\ loop_pc \in {"prompt", "ended"}))
    /\ [][nprompts' = nprompts + 1 => (ExitPass \/ RunPass)]_vars

\* C11 amended: as stated, except that the loop also ends when input()
\* itself raises (EOFError at the end of the input): then nothing is printed
\* and the agent is not called.
C11_EndsOnExitOrInputError ==
    /\ [](loop_pc # "idle" =>
            /\ RunsMatchPrompts
            /\ loop_pc \in {"prompt", "ended", "raised"}
            /\ (loop_pc = "raised" => Len(runs) = nprompts - 1))
    /\ [][nprompts' = nprompts + 1 => (ExitPass \/ RunPass \/ InputRaisedPass)]_vars

C11_Witness ==
    /\ loop_pc = "ended"
    /\ user_input = <<"Q", "u", "I", "t">>
    /\ Len(runs) = 2
    /\ runs[1].input = <<" ", "e", "x", "i", "t">>
    /\ nprompts = 3

\* The pass called agent.run and the call raised.
RunFailed ==
    /\ Len(runs') = Len(runs) + 1
    /\ ~runs'[Len(runs')].ok

\* C12: an exception raised by agent.run is caught and reported as an error
\* message, and the loop continues by asking for the next input; a failed
\* query never ends the session.
C12_FailedRunKeepsSession ==
    /\ [][RunFailed =>
            /\ printed' = Append(printed, <<"Error", ":", " ">> \o runs'[Len(runs')].text)
            /\ loop_pc' = "prompt"]_vars
    /\ []((loop_pc \in {"ended", "raised"} /\ runs # <<>> /\ ~LastRun.ok) =>
            Len(runs) < nprompts)

\* A failed query, reported, followed by a further query in the same session.
C12_Witness ==
    /\ Len(runs) = 2
    /\ ~runs[1].ok
    /\ runs[1].text = <<"Could not parse LLM output">>
    /\ printed[2] = <<"Error", ":", " ", "Could not parse LLM output">>
    /\ runs[2].ok
    /\ loop_pc = "prompt"

====
